---- MODULE Spec2Model ----
(***************************************************************************)
(* ngx-surreal: SurrealModule.forRoot / SurrealService.                    *)
(*                                                                         *)
(* The service wraps every method of the SurrealDB driver as               *)
(*     from(this.db.<method>(...))                                         *)
(* The state below is the dependency-injection scopes that hold the        *)
(* module, the service instances (each owning one driver client), the      *)
(* driver invocations in order, and the streams returned to callers with   *)
(* their subscribers.  The driver itself is outside the repository: its    *)
(* promises settle nondeterministically.                                   *)
(***************************************************************************)
EXTENDS Integers, Sequences, FiniteSets, TLC

(* ------------------------------ bounds -------------------------------- *)

\* Driver invocations per behaviour of Spec (the constructor's connect included).
MaxCalls == 3
\* Subscriptions made by application code to one returned stream.
MaxSubs == 2
\* Injectors of the application (0 is the root, Parent(i) the enclosing one).
NInjectors == 3
\* Times SurrealModule.forRoot(...) appears among the imports of one injector.
MaxImports == 2

(* --------------------------- JavaScript values ------------------------ *)

Undefined == [t |-> "undefined", v |-> ""]
Null == [t |-> "null", v |-> ""]
Str(s) == [t |-> "string", v |-> s]
Arr(n) == [t |-> "array", v |-> n]
Obj(n) == [t |-> "object", v |-> n]
Fn(n) == [t |-> "function", v |-> n]
Bool(b) == [t |-> "boolean", v |-> IF b THEN "true" ELSE "false"]

\* typeof x === 'string'
TypeofString(x) == x.t = "string"

\* !x
Falsy(x) == x.t \in {"undefined", "null"} \/ x = Str("") \/ x = Bool(FALSE)

\* The k-th declared parameter of a call made with the argument list args:
\* a parameter the caller did not supply is undefined.
Param(args, k) == IF k <= Len(args) THEN args[k] ELSE Undefined

\* An argument list without its trailing undefined entries: f(a) and
\* f(a, undefined) bind the same parameters.
RECURSIVE Trim(_)
Trim(args) ==
  IF args = <<>> THEN <<>>
  ELSE IF args[Len(args)] = Undefined THEN Trim(SubSeq(args, 1, Len(args) - 1))
  ELSE args

(* ------------------------------ configuration ------------------------- *)

\* SurrealConfig = ConnectionOptions & { url: string }
Configs ==
  { [url |-> "http://localhost:8000/rpc", namespace |-> "test", database |-> "test"],
    [url |-> "ws://db.example:8000", namespace |-> "prod", database |-> "app"],
    [url |-> "/rpc", namespace |-> "test", database |-> "test"] }

\* new URL(url): the parsed URL (href is the serialised form, which gains the
\* root path when the input has none), or a TypeError for a string that is not
\* an absolute URL.
ParseURL(url) ==
  CASE url = "http://localhost:8000/rpc" -> [ok |-> TRUE, href |-> "http://localhost:8000/rpc"]
    [] url = "ws://db.example:8000" -> [ok |-> TRUE, href |-> "ws://db.example:8000/"]
    [] OTHER -> [ok |-> FALSE, href |-> ""]

\* Mutation: the whole configuration, url included, is passed as the options.
OptionsWithUrl(cfg) == cfg

\* const { url, ...options } = this.config
Options(cfg) == [k \in (DOMAIN cfg) \ {"url"} |-> cfg[k]]

\* The argument list this.db.connect receives: (new URL(url), options).
ConnectArgs(cfg) ==
  << [t |-> "URL", v |-> ParseURL(cfg.url).href],
     [t |-> "options", v |-> "", fields |-> Options(cfg)] >>

(* ------------------------------ driver side --------------------------- *)

\* What the driver's promises resolve with or reject with.
Values == {"v1", "v2"}
Errors == {"e1", "e2"}

Pending == [kind |-> "pending", val |-> ""]
Resolved(v) == [kind |-> "resolved", val |-> v]
Rejected(e) == [kind |-> "rejected", val |-> e]

Statuses == {"disconnected", "connecting", "connected"}

Injectors == 0 .. (NInjectors - 1)
Parent(i) == (i - 1) \div 2

VARIABLES
  injectors,   \* per injector: its state, how often forRoot was imported, the config token's value
  provided,    \* per injector: 0, or the service instance its SurrealService provider holds, or -1 (the factory threw)
  retrieved,   \* per injector: the service instances handed to injection requests made there
  thrown,      \* the errors thrown synchronously, in order
  services,    \* the SurrealService instances constructed (index = instance = its driver client)
  driverLog,   \* the driver invocations, in order
  streams,     \* the streams returned by adapter methods, with their subscribers
  unhandled    \* errors reported to the host's unhandled-error channel

vars == << injectors, provided, retrieved, thrown, services, driverLog, streams, unhandled >>

NoConfig == [url |-> "", namespace |-> "", database |-> ""]

\* The status accessor's cell before its first read, and the record of the
\* latest read: what it returned and what the driver's status was then.
NoMemo == [set |-> FALSE, v |-> "disconnected"]
NoRead == [read |-> FALSE, ret |-> "disconnected", live |-> "disconnected"]

(* --------------------- rxjs: from(promise) ---------------------------- *)

\* The driver invocation an adapter method makes, as the log records it.
Invocation(c, m, given, sid) == [client |-> c, method |-> m, args |-> given, stream |-> sid]

\* Mutation: only connect goes to the driver at once; any other call is held
\* back by the adapter.
CallHeldBack(log, inv) == IF inv.method = "connect" THEN Append(log, inv) ELSE log

\* Mutation: the driver call deferred until the stream is subscribed.
CallDefers(log, inv) == log

\* from(this.db.m(...)): the argument of from() is evaluated when the adapter
\* method runs, so the driver method is invoked during the adapter call.
CallEffect(log, inv) == Append(log, inv)

\* Mutation: every subscription invokes the driver method again.
SubscribeReinvokes(log, inv) == Append(log, inv)

\* Subscribing to from(promise) attaches callbacks to the promise the stream
\* already holds; the driver is not invoked.
SubscribeEffect(log, inv) == log

\* Mutation: a rejected call is made once more (retry).
RejectionRetries(log, inv) == Append(log, inv)

\* return from(this.db.m(...)): the stream is returned as from() built it, with
\* no retry or catch operator piped on; a rejection leads to no driver call.
RejectionEffect(log, inv) == log

\* Mutation: the adapter answers the loss of the connection by connecting
\* again.
DisconnectReconnects(log, inv) == Append(log, inv)

\* The service registers no listener on the client (db = new Surreal() and
\* this.connect().subscribe() are all the constructor does): when the
\* connection is lost the adapter calls nothing.
DisconnectEffect(log, inv) == log

\* Mutation: unsubscribing asks the driver to abandon the call.
UnsubscribeCancels(log, inv) == Append(log, [inv EXCEPT !.method = "kill"])

\* from(promise) registers no teardown: unsubscribing closes the subscriber
\* and calls nothing on the driver.
UnsubscribeEffect(log, inv) == log

\* Mutation: the value is emitted without the completion.
NotificationsNoComplete(outcome) ==
  IF outcome.kind = "resolved" THEN << [n |-> "next", val |-> outcome.val] >>
  ELSE << [n |-> "error", val |-> outcome.val] >>

\* Mutation: a rejection reaches the subscriber as a value of the stream.
NotificationsErrorAsValue(outcome) ==
  << [n |-> "next", val |-> outcome.val], [n |-> "complete", val |-> ""] >>

\* What from(promise) hands to a subscriber that is still subscribed when the
\* promise has settled: next(value) and complete(), or error(reason).
Notifications(outcome) ==
  IF outcome.kind = "resolved"
  THEN << [n |-> "next", val |-> outcome.val], [n |-> "complete", val |-> ""] >>
  ELSE << [n |-> "error", val |-> outcome.val] >>

\* Mutation: only a subscriber present when the promise settles is served.
ServesOnlyEarly(late) == ~late

\* promise.then(...) attached after the promise has settled still runs: a
\* subscriber is served whether it subscribed before the settlement or after
\* (late).
Serves(late) == TRUE

\* A subscriber as subscribe() leaves it; late tells that the promise had
\* already settled then.
Subscriber(handler) == [st |-> "active", got |-> <<>>, handler |-> handler, late |-> FALSE]

\* The number of driver invocations made for stream sid.
Invocations(sid) == Cardinality({k \in 1 .. Len(driverLog) : driverLog[k].stream = sid})

\* The number of driver connect invocations on client c recorded in log.
ConnectCount(log, c) ==
  Cardinality({k \in 1 .. Len(log) : log[k].client = c /\ log[k].method = "connect"})

(* ------------------------- registration (Angular DI) ------------------ *)

RECURSIVE Ancestors(_)
Ancestors(i) == IF i = 0 THEN {} ELSE {Parent(i)} \cup Ancestors(Parent(i))

\* @Optional() @SkipSelf() parentModule?: SurrealModule -- the module instance
\* of an enclosing injector, the injector's own one not counted.
ParentModule(i) == \E a \in Ancestors(i) : injectors[a].st = "registered"

\* Mutation: the guard removed from the module's constructor.
ModuleConstructorNoGuard(parentModule) == "ok"

\* constructor(@Optional() @SkipSelf() parentModule?: SurrealModule)
ModuleConstructor(parentModule) == IF parentModule THEN "throw" ELSE "ok"

\* An injector is created inside one that exists (the root inside none).
ParentReady(i) == IF i = 0 THEN TRUE ELSE injectors[Parent(i)].st \in {"plain", "registered"}

\* An injector that does not import the module comes into being.
CreateInjector(i) ==
  /\ injectors[i].st = "none"
  /\ ParentReady(i)
  /\ injectors' = [injectors EXCEPT ![i] = [st |-> "plain", imports |-> 0, cfg |-> NoConfig]]
  /\ UNCHANGED << provided, retrieved, thrown, services, driverLog, streams, unhandled >>

\* An injector comes into being whose imports hold SurrealModule.forRoot(cfg)
\* n times.  The injector instantiates the module class once, whatever n is;
\* forRoot's providers (the config token and the service factory) are
\* registered when the constructor returns.
ImportModule(i, n, cfg) ==
  /\ injectors[i].st = "none"
  /\ ParentReady(i)
  /\ IF ModuleConstructor(ParentModule(i)) = "throw"
     THEN /\ injectors' = [injectors EXCEPT ![i] = [st |-> "failed", imports |-> n, cfg |-> NoConfig]]
          /\ thrown' = Append(thrown, [kind |-> "SurrealModule is already loaded", at |-> i])
     ELSE /\ injectors' = [injectors EXCEPT ![i] = [st |-> "registered", imports |-> n, cfg |-> cfg]]
          /\ UNCHANGED thrown
  /\ UNCHANGED << provided, retrieved, services, driverLog, streams, unhandled >>

\* The injector whose SurrealService provider answers a request made in i: the
\* nearest one, from i outwards, that holds forRoot's providers; -1 when there
\* is none (the request then falls to providedIn: 'root').
RECURSIVE ProviderScope(_)
ProviderScope(i) ==
  IF injectors[i].st = "registered" THEN i
  ELSE IF i = 0 THEN -1
  ELSE ProviderScope(Parent(i))

\* Mutation: the factory builds a new service for every request.
FactoryRunsOn(held) == TRUE

\* A provider's factory runs on the first request only; the injector keeps
\* the instance.
FactoryRuns(held) == held = 0

\* Mutation: the constructor subscribes with an error handler of its own.
ConstructorSubscriberHandles == Subscriber(TRUE)

\* this.connect().subscribe(): the constructor's subscriber, with no handler
\* at all.
ConstructorSubscriber == Subscriber(FALSE)

\* Mutation: the constructor does not connect.
ConstructorCallsNone(log, inv) == log

\* constructor() { this.connect().subscribe(); }
ConstructorCalls(log, inv) == SubscribeEffect(CallEffect(log, inv), inv)

\* SurrealFactory = () => new SurrealService(), run in the injector j for a
\* request made in i.  Field initialisers: db = new Surreal(), config =
\* inject(SURREAL_CONFIG_TOKEN); then the constructor's this.connect().subscribe().
Construct(i, j) ==
  LET c == Len(services) + 1
      sid == Len(streams) + 1
      cfg == injectors[j].cfg
      inv == Invocation(c, "connect", ConnectArgs(cfg), sid)
      log == ConstructorCalls(driverLog, inv)
      fresh == [injector |-> j, config |-> cfg, status |-> "disconnected",
                memo |-> NoMemo, lastRead |-> NoRead,
                alive |-> FALSE, ctorConnects |-> 0, db |-> 1]
  IN IF ParseURL(cfg.url).ok
     THEN /\ services' = Append(services,
                [fresh EXCEPT !.alive = TRUE,
                              !.status = IF ConnectCount(log, c) > 0 THEN "connecting" ELSE "disconnected",
                              !.ctorConnects = ConnectCount(log, c)])
          /\ driverLog' = log
          /\ streams' = Append(streams,
                [client |-> c, method |-> "connect", passed |-> <<>>, given |-> ConnectArgs(cfg),
                 origin |-> "ctor",
                 outcome |-> Pending, subs |-> << ConstructorSubscriber >>, updates |-> <<>>])
          /\ provided' = [provided EXCEPT ![j] = c]
          /\ retrieved' = [retrieved EXCEPT ![i] = @ \cup {c}]
          /\ UNCHANGED << thrown >>
     ELSE \* new URL(url) throws inside connect(): the constructor does not return
          /\ services' = Append(services, fresh)
          /\ provided' = [provided EXCEPT ![j] = -1]
          /\ thrown' = Append(thrown, [kind |-> "TypeError: Invalid URL", at |-> j])
          /\ UNCHANGED << driverLog, streams, retrieved >>

\* inject(SurrealService) in injector i.
Inject(i) ==
  /\ injectors[i].st \in {"plain", "registered"}
  /\ LET j == ProviderScope(i)
     IN IF j >= 0
        THEN IF FactoryRuns(provided[j])
             THEN Construct(i, j)
             ELSE /\ provided[j] > 0
                  /\ retrieved' = [retrieved EXCEPT ![i] = @ \cup {provided[j]}]
                  /\ UNCHANGED << provided, thrown, services, driverLog, streams >>
        ELSE \* providedIn: 'root' -- the class is built in the root injector,
             \* where inject(SURREAL_CONFIG_TOKEN) finds no provider and throws
             \* after db = new Surreal() has run
             /\ provided[0] = 0
             /\ services' = Append(services,
                   [injector |-> 0, config |-> NoConfig, status |-> "disconnected",
                    memo |-> NoMemo, lastRead |-> NoRead,
                    alive |-> FALSE, ctorConnects |-> 0, db |-> 1])
             /\ provided' = [provided EXCEPT ![0] = -1]
             /\ thrown' = Append(thrown, [kind |-> "NullInjectorError", at |-> 0])
             /\ UNCHANGED << driverLog, streams, retrieved >>
  /\ UNCHANGED << injectors, unhandled >>

(* ------------------------------ the driver ---------------------------- *)

\* The client's status once the driver method m has been invoked: connect
\* leaves disconnected for connecting.
StatusOnInvoke(st, m) == IF m = "connect" /\ st = "disconnected" THEN "connecting" ELSE st

\* The client's status once the promise of method m has resolved.
StatusOnResolve(st, m) ==
  CASE m = "connect" -> "connected"
    [] m = "close" -> "disconnected"
    [] OTHER -> st

\* The client's status once the promise of method m has rejected.
StatusOnReject(st, m) == IF m = "connect" /\ st = "connecting" THEN "disconnected" ELSE st

Alive(c) == c \in 1 .. Len(services) /\ services[c].alive

\* The driver resolves the promise behind stream sid with v.
DriverResolve(sid, v) ==
  /\ sid \in 1 .. Len(streams)
  /\ streams[sid].outcome = Pending
  /\ Invocations(sid) > 0
  /\ LET c == streams[sid].client
         m == streams[sid].method
     IN /\ m = "connect" => services[c].status \in {"connecting", "connected"}
        /\ services' = [services EXCEPT ![c].status = StatusOnResolve(@, m)]
  /\ streams' = [streams EXCEPT ![sid].outcome = Resolved(v)]
  /\ UNCHANGED << injectors, provided, retrieved, thrown, driverLog, unhandled >>

\* The driver rejects the promise behind stream sid with e; the adapter's
\* stream holds the promise and does what RejectionEffect says.
DriverReject(sid, e) ==
  /\ sid \in 1 .. Len(streams)
  /\ streams[sid].outcome = Pending
  /\ Invocations(sid) > 0
  /\ LET c == streams[sid].client
         m == streams[sid].method
     IN /\ services' = [services EXCEPT ![c].status = StatusOnReject(@, m)]
        /\ driverLog' = RejectionEffect(driverLog, Invocation(c, m, streams[sid].given, sid))
  /\ streams' = [streams EXCEPT ![sid].outcome = Rejected(e)]
  /\ UNCHANGED << injectors, provided, retrieved, thrown, unhandled >>

\* The connection of client c is lost.
NetworkLoss(c) ==
  /\ Alive(c)
  /\ services[c].status = "connected"
  /\ services' = [services EXCEPT ![c].status = "disconnected"]
  /\ driverLog' = DisconnectEffect(driverLog,
        Invocation(c, "connect", ConnectArgs(services[c].config), 0))
  /\ UNCHANGED << injectors, provided, retrieved, thrown, streams, unhandled >>

(* ------------------------------ the service --------------------------- *)

\* computed(() => this.db.status): the function runs on the first read; it
\* reads no signal, so nothing ever marks the cell stale and every later read
\* returns the value of the first.
Computed(memo, live) == IF memo.set THEN memo.v ELSE live

\* this.surrealService.status()
ReadStatus(c) ==
  /\ Alive(c)
  /\ LET ret == Computed(services[c].memo, services[c].status)
     IN services' = [services EXCEPT
                       ![c].memo = [set |-> TRUE, v |-> ret],
                       ![c].lastRead = [read |-> TRUE, ret |-> ret, live |-> services[c].status]]
  /\ UNCHANGED << injectors, provided, retrieved, thrown, driverLog, streams, unhandled >>

\* Mutation: connect() makes a new client and keeps that one.
dbReplacedOnConnect(db, m) == IF m = "connect" THEN db + 1 ELSE db

\* private readonly db = new Surreal(): the field holds the client the
\* initialiser made, number 1 of its service; the methods call it and none
\* assigns the field.
dbAfter(db, m) == db

\* return from(this.db.m(...given)), for a caller that passed the list passed.
Call(c, m, passed, given) ==
  LET sid == Len(streams) + 1
  IN /\ Alive(c)
     /\ driverLog' = CallEffect(driverLog, Invocation(c, m, given, sid))
     /\ streams' = Append(streams,
           [client |-> c, method |-> m, passed |-> passed, given |-> given, origin |-> "app",
            outcome |-> Pending, subs |-> <<>>, updates |-> <<>>])
     /\ services' = [services EXCEPT ![c].status = StatusOnInvoke(@, m),
                                     ![c].db = dbAfter(@, m)]
     /\ UNCHANGED << injectors, provided, retrieved, thrown, unhandled >>

\* stream.subscribe(next, error, complete) by application code.
Subscribe(sid) ==
  /\ sid \in 1 .. Len(streams)
  /\ streams[sid].origin = "app"
  /\ Len(streams[sid].subs) < MaxSubs
  /\ streams' = [streams EXCEPT ![sid].subs =
        Append(@, [Subscriber(TRUE) EXCEPT !.late = streams[sid].outcome # Pending])]
  /\ driverLog' = SubscribeEffect(driverLog,
        Invocation(streams[sid].client, streams[sid].method, streams[sid].given, sid))
  /\ UNCHANGED << injectors, provided, retrieved, thrown, services, unhandled >>

\* subscription.unsubscribe() before anything was delivered.
Unsubscribe(sid, k) ==
  /\ sid \in 1 .. Len(streams)
  /\ k \in 1 .. Len(streams[sid].subs)
  /\ streams[sid].subs[k].st = "active"
  /\ streams[sid].origin = "app"
  /\ streams' = [streams EXCEPT ![sid].subs[k].st = "unsubscribed"]
  /\ driverLog' = UnsubscribeEffect(driverLog,
        Invocation(streams[sid].client, streams[sid].method, streams[sid].given, sid))
  /\ UNCHANGED << injectors, provided, retrieved, thrown, services, unhandled >>

\* The callbacks from(promise) attached for subscriber k run: the promise has
\* settled and the subscriber is still subscribed.  A rejection delivered to a
\* subscriber without an error handler is reported to the host.
Deliver(sid, k) ==
  /\ sid \in 1 .. Len(streams)
  /\ k \in 1 .. Len(streams[sid].subs)
  /\ streams[sid].outcome # Pending
  /\ streams[sid].subs[k].st = "active"
  /\ Serves(streams[sid].subs[k].late)
  /\ streams' = [streams EXCEPT ![sid].subs[k] =
        [@ EXCEPT !.st = "closed", !.got = Notifications(streams[sid].outcome)]]
  /\ unhandled' = IF streams[sid].outcome.kind = "rejected" /\ ~streams[sid].subs[k].handler
                  THEN Append(unhandled, streams[sid].outcome.val)
                  ELSE unhandled
  /\ UNCHANGED << injectors, provided, retrieved, thrown, services, driverLog >>

(* --------------------------- the wrapped methods ---------------------- *)

\* Arguments application code passes.
Things == {Str("person"), [t |-> "RecordId", v |-> "person:1"]}
Datas == {Obj("d1")}
ThingArgs == {<< th >> : th \in Things}
ThingDataArgs == ThingArgs \cup {<< th, d >> : th \in Things, d \in Datas}
InsertArgs ==
  { << Str("person"), Obj("d1") >>, << Obj("d1") >>, << Arr("rows") >>,
    << Str(""), Obj("d1") >>, << Undefined, Obj("d1") >>, << Null, Obj("d1") >> }
RunArgs ==
  { << Str("fn::f") >>, << Str("fn::f"), Arr("a1") >>,
    << Str("fn::f"), Str("1.0.0") >>, << Str("fn::f"), Str("1.0.0"), Arr("a1") >> }

\* authenticate(...args) { return from(this.db.authenticate(...args)); }
authenticate(c) == \E a \in {<< Str("jwt") >>} : Call(c, "authenticate", a, a)

\* close() { return from(this.db.close()); }
close(c) == Call(c, "close", <<>>, <<>>)

\* connect() { const { url, ...options } = this.config;
\*             return from(this.db.connect(new URL(url), options)); }
connect(c) ==
  /\ Alive(c)
  /\ IF ParseURL(services[c].config.url).ok
     THEN Call(c, "connect", <<>>, ConnectArgs(services[c].config))
     ELSE /\ thrown' = Append(thrown, [kind |-> "TypeError: Invalid URL", at |-> services[c].injector])
          /\ UNCHANGED << injectors, provided, retrieved, services, driverLog, streams, unhandled >>

\* create(thing, data?) { return from(this.db.create(thing, data)); }
create(c) == \E a \in ThingDataArgs : Call(c, "create", a, << Param(a, 1), Param(a, 2) >>)

\* delete(thing) { return from(this.db.delete(thing)); }
delete(c) == \E a \in ThingArgs : Call(c, "delete", a, << Param(a, 1) >>)

\* export(...args) { return from(this.db.export(...args)); }
export(c) == \E a \in {<<>>, << Obj("exportOptions") >>} : Call(c, "export", a, a)

\* import(...args) { return from(this.db.import(...args)); }
import(c) == \E a \in {<< Str("dump") >>} : Call(c, "import", a, a)

\* info() { return from(this.db.info()); }
info(c) == Call(c, "info", <<>>, <<>>)

\* Mutation: the second parameter alone is passed on, whatever the first is.
insertGivenSecondOnly(table, data) == << data >>

\* !table ? this.db.insert(data) : this.db.insert(table, data)
insertGiven(table, data) == IF Falsy(table) THEN << data >> ELSE << table, data >>

\* insert(table, data?) { return !table ? from(this.db.insert(data)) : from(this.db.insert(table, data)); }
insert(c) == \E a \in InsertArgs : Call(c, "insert", a, insertGiven(Param(a, 1), Param(a, 2)))

\* insertRelation(thing, data?) { return !thing ? from(this.db.insertRelation(data))
\*                                              : from(this.db.insertRelation(thing, data)); }
insertRelation(c) ==
  \E a \in InsertArgs : Call(c, "insertRelation", a, insertGiven(Param(a, 1), Param(a, 2)))

\* invalidate() { return from(this.db.invalidate()); }
invalidate(c) == Call(c, "invalidate", <<>>, <<>>)

\* kill(...args) { return from(this.db.kill(...args)); }
kill(c) == \E a \in {<< Str("uuid1") >>} : Call(c, "kill", a, a)

\* let(...args) { return from(this.db.let(...args)); }
let(c) == \E a \in {<< Str("key"), Obj("val") >>} : Call(c, "let", a, a)

\* Mutation: live() hands the driver a function of its own in place of the
\* caller's callback, to feed the updates into the stream.
liveIntoStream(c) ==
  \E a \in {<< Str("person"), Fn("cb1") >>, << Str("person"), Fn("cb1"), Bool(TRUE) >>} :
    Call(c, "live", a, [a EXCEPT ![2] = Fn("next")])

\* live(...args) { return from(this.db.live(...args)); }
live(c) ==
  \E a \in {<< Str("person"), Fn("cb1") >>, << Str("person"), Fn("cb1"), Bool(TRUE) >>} :
    Call(c, "live", a, a)

\* merge(thing, data?) { return from(this.db.merge(thing, data)); }
merge(c) == \E a \in ThingDataArgs : Call(c, "merge", a, << Param(a, 1), Param(a, 2) >>)

\* patch(thing, data?, diff?) { return from(this.db.patch(thing, data, diff as never)); }
patch(c) ==
  \E a \in {<< Str("person") >>, << Str("person"), Arr("patches") >>,
            << Str("person"), Arr("patches"), Bool(TRUE) >>} :
    Call(c, "patch", a, << Param(a, 1), Param(a, 2), Param(a, 3) >>)

\* ping() { return from(this.db.ping()); }
ping(c) == Call(c, "ping", <<>>, <<>>)

\* query(...args) { return from(this.db.query(...args)); }
query(c) ==
  \E a \in {<< Str("select * from person") >>, << Str("select * from person"), Obj("bindings") >>} :
    Call(c, "query", a, a)

\* queryRaw(...args) { return from(this.db.queryRaw(...args)); }
queryRaw(c) ==
  \E a \in {<< Str("select * from person") >>, << Str("select * from person"), Obj("bindings") >>} :
    Call(c, "queryRaw", a, a)

\* ready() { return from(this.db.ready); } -- the driver's ready promise, read
\* when the method runs
ready(c) == Call(c, "ready", <<>>, <<>>)

\* relate(fromRecord, thing, toRecord, data?) { return from(this.db.relate(fromRecord, thing, toRecord, data)); }
relate(c) ==
  \E a \in {<< Str("person:1"), Str("knows"), Str("person:2") >>,
            << Str("person:1"), Str("knows"), Str("person:2"), Obj("d1") >>} :
    Call(c, "relate", a, << Param(a, 1), Param(a, 2), Param(a, 3), Param(a, 4) >>)

\* rpc(...args) { return from(this.db.rpc(...args)); }
rpc(c) == \E a \in {<< Str("method"), Arr("params") >>} : Call(c, "rpc", a, a)

\* typeof versionOrArgs === 'string' ? this.db.run(name, versionOrArgs, args)
\*                                   : this.db.run(name, args)
runGiven(name, versionOrArgs, args) ==
  IF TypeofString(versionOrArgs) THEN << name, versionOrArgs, args >> ELSE << name, args >>

\* run(name, versionOrArgs?, args?)
run(c) == \E a \in RunArgs : Call(c, "run", a, runGiven(Param(a, 1), Param(a, 2), Param(a, 3)))

\* select(thing) { return from(this.db.select(thing)); }
select(c) == \E a \in ThingArgs : Call(c, "select", a, << Param(a, 1) >>)

\* signin(...args) { return from(this.db.signin(...args)); }
signin(c) == \E a \in {<< Obj("credentials") >>} : Call(c, "signin", a, a)

\* signup(...args) { return from(this.db.signup(...args)); }
signup(c) == \E a \in {<< Obj("credentials") >>} : Call(c, "signup", a, a)

\* subscribeLive(...args) { return from(this.db.subscribeLive(...args)); }
subscribeLive(c) == \E a \in {<< Str("uuid1"), Fn("cb1") >>} : Call(c, "subscribeLive", a, a)

\* unsubscribeLive(...args) { return from(this.db.unSubscribeLive(...args)); }
unsubscribeLive(c) ==
  \E a \in {<< Str("uuid1"), Fn("cb1") >>, << Str("uuid1"), Fn("cb2") >>} :
    Call(c, "unSubscribeLive", a, a)

\* unset(...args) { return from(this.db.unset(...args)); }
unset(c) == \E a \in {<< Str("key") >>} : Call(c, "unset", a, a)

\* update(thing, data?) { return from(this.db.update(thing, data)); }
update(c) == \E a \in ThingDataArgs : Call(c, "update", a, << Param(a, 1), Param(a, 2) >>)

\* upsert(thing, data?) { return from(this.db.upsert(thing, data)); }
upsert(c) == \E a \in ThingDataArgs : Call(c, "upsert", a, << Param(a, 1), Param(a, 2) >>)

\* use(options) { return from(this.db.use(options)); }
use(c) == \E a \in {<< Obj("namespace/database") >>} : Call(c, "use", a, << Param(a, 1) >>)

\* version() { return from(this.db.version()); }
version(c) == Call(c, "version", <<>>, <<>>)

(* ------------------------------ specifications ------------------------ *)

NoInjector == [st |-> "none", imports |-> 0, cfg |-> NoConfig]

\* Nothing of the application exists yet.
InitDI ==
  /\ injectors = [i \in Injectors |-> NoInjector]
  /\ provided = [i \in Injectors |-> 0]
  /\ retrieved = [i \in Injectors |-> {}]
  /\ thrown = <<>>
  /\ services = <<>>
  /\ driverLog = <<>>
  /\ streams = <<>>
  /\ unhandled = <<>>

\* The application has been bootstrapped with SurrealModule.forRoot(cfg) in
\* its root injector; the service has not been requested yet.
Init ==
  /\ \E cfg \in Configs :
       injectors = [i \in Injectors |->
                      IF i = 0 THEN [st |-> "registered", imports |-> 1, cfg |-> cfg]
                      ELSE NoInjector]
  /\ provided = [i \in Injectors |-> 0]
  /\ retrieved = [i \in Injectors |-> {}]
  /\ thrown = <<>>
  /\ services = <<>>
  /\ driverLog = <<>>
  /\ streams = <<>>
  /\ unhandled = <<>>

Clients == 1 .. Len(services)
StreamIds == 1 .. Len(streams)

\* The connection's life: construction, connect and close, a request, the
\* driver's answers, loss of the network, reads of the status accessor.
Next ==
  \/ Inject(0)
  \/ /\ Len(streams) < MaxCalls
     /\ \E c \in Clients : connect(c) \/ close(c) \/ ping(c)
  \/ \E sid \in StreamIds : \E v \in Values : DriverResolve(sid, v)
  \/ \E sid \in StreamIds : \E e \in Errors : DriverReject(sid, e)
  \/ \E sid \in StreamIds : \E k \in 1 .. Len(streams[sid].subs) : Deliver(sid, k)
  \/ \E c \in Clients : NetworkLoss(c)
  \/ \E c \in Clients : ReadStatus(c)

Spec == Init /\ [][Next]_vars

\* One call of a wrapped method on the constructed service, and the stream it
\* returns: subscriptions, the driver's answer, deliveries.
AnyMethod(c) ==
  \/ run(c)
  \/ authenticate(c) \/ close(c) \/ connect(c) \/ create(c) \/ delete(c)
  \/ export(c) \/ import(c) \/ info(c) \/ insert(c) \/ insertRelation(c)
  \/ invalidate(c) \/ kill(c) \/ let(c) \/ live(c) \/ merge(c) \/ patch(c)
  \/ ping(c) \/ query(c) \/ queryRaw(c) \/ ready(c) \/ relate(c) \/ rpc(c)
  \/ select(c) \/ signin(c) \/ signup(c) \/ subscribeLive(c)
  \/ unsubscribeLive(c) \/ unset(c) \/ update(c) \/ upsert(c) \/ use(c)
  \/ version(c)

NextStream ==
  \/ Inject(0)
  \/ /\ \A sid \in StreamIds : streams[sid].origin = "ctor"
     /\ \E c \in Clients : AnyMethod(c)
  \/ \E sid \in StreamIds : Subscribe(sid)
  \/ \E sid \in StreamIds : \E k \in 1 .. Len(streams[sid].subs) : Unsubscribe(sid, k)
  \/ \E sid \in StreamIds : \E v \in Values : DriverResolve(sid, v)
  \/ \E sid \in StreamIds : \E e \in Errors : DriverReject(sid, e)
  \/ \E sid \in StreamIds : \E k \in 1 .. Len(streams[sid].subs) : Deliver(sid, k)

SpecStream == Init /\ [][NextStream]_vars

\* Bootstrap: injectors come into being, with or without the module, and
\* application code injects the service.
NextDI ==
  \/ \E i \in Injectors : CreateInjector(i)
  \/ \E i \in Injectors : \E n \in 1 .. MaxImports : \E cfg \in Configs : ImportModule(i, n, cfg)
  \/ \E i \in Injectors : Inject(i)

SpecDI == InitDI /\ [][NextDI]_vars

(* ------------------------------ live queries -------------------------- *)

MaxLiveCalls == 2
MaxUpdates == 2
Updates == {"u1"}

\* The query identifier application code holds once live() has yielded v.
Uuid(v) == IF v = "v1" THEN Str("uuid1") ELSE Str("uuid2")

\* The arguments the driver received for stream sid.
Received(sid) == driverLog[CHOOSE k \in 1 .. Len(driverLog) : driverLog[k].stream = sid].args

\* "Kill a live query": a later kill of the identifier of sid has succeeded.
Killed(sid) ==
  \E s \in sid + 1 .. Len(streams) :
    /\ streams[s].method = "kill"
    /\ streams[s].outcome.kind = "resolved"
    /\ Received(s) = << Uuid(streams[sid].outcome.val) >>

\* "Unsubscribe a callback from a live select query": a later unSubscribeLive
\* of the identifier and callback of sid has succeeded.
CallbackRemoved(sid) ==
  \E s \in sid + 1 .. Len(streams) :
    /\ streams[s].method = "unSubscribeLive"
    /\ streams[s].outcome.kind = "resolved"
    /\ Received(s) = << Uuid(streams[sid].outcome.val), Received(sid)[2] >>

\* "Start a live select query and invoke the callback with responses": the
\* driver invokes the function it was given for the live query of sid with
\* the update u.  The record keeps whether a subscriber of the stream had
\* already seen it complete.
LiveUpdate(sid, u) ==
  /\ sid \in 1 .. Len(streams)
  /\ streams[sid].method = "live"
  /\ streams[sid].outcome.kind = "resolved"
  /\ Invocations(sid) > 0
  /\ ~Killed(sid)
  /\ ~CallbackRemoved(sid)
  /\ Len(streams[sid].updates) < MaxUpdates
  /\ streams' = [streams EXCEPT ![sid].updates =
        Append(@, [val |-> u, to |-> Received(sid)[2],
                   completed |-> \E k \in 1 .. Len(streams[sid].subs) :
                                    streams[sid].subs[k].st = "closed"])]
  /\ UNCHANGED << injectors, provided, retrieved, thrown, services, driverLog, unhandled >>

\* A live query: started once the initial connect has ended, then killed or
\* its callback removed; the stream of live() subscribed to on return; the driver's
\* answers and its updates.
NextLive ==
  \/ Inject(0)
  \/ /\ Len(streams) = 1
     /\ streams[1].subs[1].st = "closed"
     /\ \E c \in Clients : live(c)
  \/ /\ Len(streams) > 1
     /\ Len(streams) < 1 + MaxLiveCalls
     /\ \E c \in Clients : kill(c) \/ unsubscribeLive(c)
  \/ \E sid \in StreamIds :
       streams[sid].method = "live" /\ streams[sid].outcome = Pending /\ Subscribe(sid)
  \/ \E sid \in StreamIds : \E v \in Values : DriverResolve(sid, v)
  \/ \E sid \in StreamIds : \E e \in Errors : DriverReject(sid, e)
  \/ \E sid \in StreamIds : \E k \in 1 .. Len(streams[sid].subs) : Deliver(sid, k)
  \/ \E sid \in StreamIds : \E u \in Updates : LiveUpdate(sid, u)

SpecLive == Init /\ [][NextLive]_vars

(* ------------------------------ the claims ---------------------------- *)

AppStreams == {sid \in StreamIds : streams[sid].origin = "app"}
SubsOf(sid) == 1 .. Len(streams[sid].subs)

\* C1: when the driver's call resolves with v, a subscriber of the returned
\* stream to which the outcome has been delivered has received exactly
\* next(v) followed by complete, and nothing else; a subscriber that has not
\* been served (or has unsubscribed) has received nothing.
C1_ResolvedEmitsValueThenCompletes ==
  \A sid \in StreamIds :
    streams[sid].outcome.kind = "resolved" =>
      \A k \in SubsOf(sid) :
        LET sub == streams[sid].subs[k]
        IN IF sub.st = "closed"
           THEN sub.got = << [n |-> "next", val |-> streams[sid].outcome.val],
                             [n |-> "complete", val |-> ""] >>
           ELSE sub.got = <<>>

\* C1 witness: a wrapped method's stream whose driver call resolved and whose
\* subscriber has received the value and the completion.
C1_Witness ==
  \E sid \in AppStreams : \E k \in SubsOf(sid) :
    /\ streams[sid].outcome.kind = "resolved"
    /\ streams[sid].subs[k].st = "closed"
    /\ Len(streams[sid].subs[k].got) = 2

\* C2: when the driver's call rejects with e, a subscriber to which the
\* outcome has been delivered has received exactly one error notification
\* carrying e, no value and no completion; other subscribers have received
\* nothing.
C2_RejectedEmitsThatError ==
  \A sid \in StreamIds :
    streams[sid].outcome.kind = "rejected" =>
      \A k \in SubsOf(sid) :
        LET sub == streams[sid].subs[k]
        IN IF sub.st = "closed"
           THEN sub.got = << [n |-> "error", val |-> streams[sid].outcome.val] >>
           ELSE sub.got = <<>>

\* C2 witness: a wrapped method's stream whose driver call rejected and whose
\* subscriber has received the error.
C2_Witness ==
  \E sid \in AppStreams : \E k \in SubsOf(sid) :
    /\ streams[sid].outcome.kind = "rejected"
    /\ streams[sid].subs[k].st = "closed"
    /\ streams[sid].subs[k].got[1].n = "error"

\* C3 as stated: a stream that has not been subscribed has caused no driver
\* call.
C3_NoDriverCallBeforeSubscription ==
  \A sid \in StreamIds : streams[sid].subs = <<>> => Invocations(sid) = 0

\* C3, amended: the driver method is invoked by the adapter call itself; a
\* stream that has not been subscribed has caused exactly one driver call, of
\* the method the adapter method wraps and on the service's client.
C3_DriverCalledByTheAdapterCall ==
  \A sid \in StreamIds :
    streams[sid].subs = <<>> =>
      /\ Invocations(sid) = 1
      /\ \E k \in 1 .. Len(driverLog) :
           /\ driverLog[k].stream = sid
           /\ driverLog[k].method = streams[sid].method
           /\ driverLog[k].client = streams[sid].client

\* C3 witness: a stream nobody subscribed to whose driver call has been made
\* and has settled.
C3_Witness ==
  \E sid \in AppStreams :
    /\ streams[sid].subs = <<>>
    /\ streams[sid].outcome # Pending
    /\ Invocations(sid) = 1

\* C4 as stated: after n >= 1 subscriptions to one stream the driver method
\* has been invoked n times.
C4_EachSubscriptionReinvokes ==
  \A sid \in StreamIds :
    Len(streams[sid].subs) >= 1 => Invocations(sid) = Len(streams[sid].subs)

\* C4, amended: however often a stream is subscribed, the driver method has
\* been invoked once for it, and all its subscribers that were served
\* received the same notifications, those of that one invocation's outcome.
C4_SubscriptionsShareOneInvocation ==
  \A sid \in StreamIds :
    Len(streams[sid].subs) >= 1 =>
      /\ Invocations(sid) = 1
      /\ \A k1, k2 \in SubsOf(sid) :
           streams[sid].subs[k1].st = "closed" /\ streams[sid].subs[k2].st = "closed"
             => streams[sid].subs[k1].got = streams[sid].subs[k2].got

\* C4 witness: a stream subscribed twice, both subscribers served.
C4_Witness ==
  \E sid \in AppStreams :
    /\ Len(streams[sid].subs) >= 2
    /\ streams[sid].subs[1].st = "closed"
    /\ streams[sid].subs[2].st = "closed"
    /\ Invocations(sid) = 1

\* C5: once the service's constructor has returned, the first driver call is
\* the connect issued by the constructor, and exactly one connect had been
\* issued on the service's client when the constructor returned.
C5_ConstructionConnectsOnce ==
  \A c \in Clients :
    services[c].alive =>
      /\ services[c].ctorConnects = 1
      /\ Len(driverLog) >= 1
      /\ driverLog[1].method = "connect"
      /\ driverLog[1].client = c
      /\ driverLog[1].stream \in StreamIds
      /\ streams[driverLog[1].stream].origin = "ctor"

\* C5 witness: the service is constructed and application code has made a
\* call of its own after the constructor's connect.
C5_Witness ==
  /\ \E c \in Clients : services[c].alive /\ services[c].ctorConnects = 1
  /\ Len(driverLog) >= 2
  /\ AppStreams # {}

\* The injectors whose requests for the service are answered by injector j.
ScopeOf(j) == {i \in Injectors : injectors[i].st \in {"plain", "registered"} /\ ProviderScope(i) = j}
ClientsIn(j) == {c \in Clients : services[c].injector = j}
Duplicate(i) == \E k \in 1 .. Len(thrown) :
                  thrown[k] = [kind |-> "SurrealModule is already loaded", at |-> i]

\* C6 as stated: every registration after the first within a scope ends in
\* the duplicate-registration error, be it a repeated import into one
\* injector or an import into an injector nested in a registered one.
C6_EverySecondRegistrationThrows ==
  \A i \in Injectors :
    (injectors[i].imports >= 2 \/ (injectors[i].imports >= 1 /\ ParentModule(i)))
      => injectors[i].st = "failed" /\ Duplicate(i)

\* C6, amended: importing the module into an injector nested in one that
\* already holds it throws the duplicate-registration error, leaves that
\* injector without the module's providers and constructs no client there;
\* the error is raised in no other case; and no injector ever has more than
\* one client, nor a client more than one connect at construction.
C6_NestedRegistrationThrows ==
  /\ \A i \in Injectors :
       /\ (injectors[i].imports >= 1 /\ ParentModule(i))
            => /\ injectors[i].st = "failed"
               /\ Duplicate(i)
               /\ provided[i] = 0
               /\ ClientsIn(i) = {}
       /\ injectors[i].st = "failed" => injectors[i].imports >= 1 /\ ParentModule(i)
       /\ (injectors[i].imports >= 1 /\ ~ParentModule(i)) => injectors[i].st = "registered"
       /\ Cardinality(ClientsIn(i)) <= 1
  /\ \A c \in Clients : ConnectCount(driverLog, c) <= 1

\* C6 witness: the module is registered and in use in one injector, and a
\* registration in an injector nested in it has thrown.
C6_Witness ==
  \E i \in Injectors : \E a \in Ancestors(i) :
    /\ injectors[i].st = "failed"
    /\ Duplicate(i)
    /\ injectors[a].st = "registered"
    /\ provided[a] > 0

C8_StatusReadIsLive ==
  \A c \in Clients :
    services[c].lastRead.read => services[c].lastRead.ret = services[c].lastRead.live


\* C9: for every wrapped method that takes arguments, the driver method is
\* invoked with the argument list the caller passed (an omitted trailing
\* argument and an undefined one taken as the same).
C9_ArgumentsForwarded ==
  \A sid \in AppStreams :
    (streams[sid].method # "connect" /\ Invocations(sid) > 0)
      => Trim(Received(sid)) = Trim(streams[sid].passed)

\* C10: run(name, args) reaches the driver as run(name, args), and
\* run(name, version, args) with a string version as run(name, version, args).
C10_RunForwardsParameterList ==
  \A sid \in AppStreams :
    (streams[sid].method = "run" /\ Invocations(sid) > 0) =>
      LET a == streams[sid].passed
      IN IF TypeofString(Param(a, 2))
         THEN Trim(Received(sid)) = Trim(<< Param(a, 1), Param(a, 2), Param(a, 3) >>)
         ELSE Trim(Received(sid)) = Trim(<< Param(a, 1), Param(a, 2) >>)

(* ------------------------------- claim C11 ---------------------------- *)

\* C11 (as stated): the duplicate-registration error is the only error raised
\* synchronously -- every error thrown at a caller, by the constructor's
\* connect or by a method call, for any configuration, is that one.
C11_OnlyRegistrationThrows ==
  \A k \in 1 .. Len(thrown) : thrown[k].kind = "SurrealModule is already loaded"

(* ------------------------------- claim C12 ---------------------------- *)

\* C12: no retries and no added effects -- at every moment each adapter call
\* made so far (the constructor's connect included) stands for exactly one
\* driver invocation, of the method and on the client the call wraps, also
\* once that invocation has rejected; the driver has been called for nothing
\* else.
C12_OneDriverCallPerAdapterCall ==
  /\ Len(driverLog) = Len(streams)
  /\ \A sid \in StreamIds :
       /\ Invocations(sid) = 1
       /\ \A k \in 1 .. Len(driverLog) :
            driverLog[k].stream = sid =>
              /\ driverLog[k].method = streams[sid].method
              /\ driverLog[k].client = streams[sid].client
              /\ driverLog[k].args = streams[sid].given

\* An application call has rejected and the rejection has reached a
\* subscriber: one driver call stands for it, two in all with the
\* constructor's.
C12_Witness ==
  \E sid \in AppStreams :
    /\ streams[sid].outcome.kind = "rejected"
    /\ \E k \in SubsOf(sid) : streams[sid].subs[k].st = "closed"
    /\ Invocations(sid) = 1
    /\ Len(driverLog) = 2

(* ------------------------------- claim C13 ---------------------------- *)

\* The explicit connect() calls application code has made on client c.
ExplicitConnects(c) ==
  {sid \in AppStreams : streams[sid].client = c /\ streams[sid].method = "connect"}

\* C13: no automatic reconnection -- whatever has happened to the connection
\* (close, loss, a failed attempt), the driver's connect has been called on a
\* client once for its construction and once more for each explicit
\* connect() of the application, and never otherwise.
C13_ConnectsAreConstructionPlusExplicit ==
  \A c \in Clients :
    services[c].alive =>
      ConnectCount(driverLog, c) = 1 + Cardinality(ExplicitConnects(c))

\* The constructor's connect succeeded, the connection was since lost or
\* closed, and the one connect issued after that is the application's.
C13_Witness ==
  \E c \in Clients :
    /\ services[c].alive
    /\ streams[1].outcome.kind = "resolved"
    /\ services[c].status = "connecting"
    /\ Cardinality(ExplicitConnects(c)) = 1
    /\ ConnectCount(driverLog, c) = 2

(* ------------------------------- claim C15 ---------------------------- *)

\* The constructor's connect on client c has not settled yet.
InitialConnectPending(c) ==
  \E sid \in StreamIds :
    /\ streams[sid].client = c
    /\ streams[sid].origin = "ctor"
    /\ streams[sid].outcome = Pending

\* C15: the adapter queues nothing -- in every state, and so also while the
\* initial connect is pending, each operation called so far is already with
\* the driver, in the order of the calls; none is held back by the adapter.
C15_EarlyCallsAreForwardedAtOnce ==
  /\ \A sid \in AppStreams :
       InitialConnectPending(streams[sid].client) =>
         \E k \in 1 .. Len(driverLog) : driverLog[k].stream = sid
  /\ \A sid \in StreamIds :
       /\ sid <= Len(driverLog)
       /\ driverLog[sid].stream = sid

\* A ping called while the initial connect is pending has reached the driver
\* and has its outcome from the driver, the connect still pending.
C15_Witness ==
  \E sid \in AppStreams :
    /\ InitialConnectPending(streams[sid].client)
    /\ streams[sid].method = "ping"
    /\ streams[sid].outcome # Pending
    /\ driverLog[sid].method = "ping"

(* ------------------------------- claim C16 ---------------------------- *)

\* C16: no cancellation -- for a subscriber that unsubscribed before the
\* call settled, the adapter has made no driver call besides the one the
\* adapter method made; the call, while pending, can still be settled by the
\* driver; and the subscriber has received nothing, also once the call has
\* settled.
C16_UnsubscribeCancelsNothing ==
  \A sid \in StreamIds : \A k \in SubsOf(sid) :
    streams[sid].subs[k].st = "unsubscribed" =>
      /\ streams[sid].subs[k].got = <<>>
      /\ \A n \in 1 .. Len(driverLog) :
           driverLog[n].stream = sid => n = sid /\ driverLog[n].method = streams[sid].method
      /\ streams[sid].outcome = Pending =>
           ENABLED (\E e \in Errors : DriverReject(sid, e))

\* close() was called and its only subscriber unsubscribed; the driver's
\* close has run to its end all the same (the connection is closed) and the
\* subscriber holds nothing.
C16_Witness ==
  \E sid \in AppStreams :
    /\ streams[sid].method = "close"
    /\ Len(streams[sid].subs) = 1
    /\ streams[sid].subs[1].st = "unsubscribed"
    /\ streams[sid].subs[1].got = <<>>
    /\ streams[sid].outcome.kind = "resolved"
    /\ services[streams[sid].client].status = "disconnected"

(* ------------------------------- claim C17 ---------------------------- *)

LiveStreams == {sid \in AppStreams : streams[sid].method = "live"}

\* C17: updates of a live query do not pass through the stream -- what a
\* subscriber of live()'s stream holds is at most the one value the call
\* resolved with (the identifier) followed by the completion, however many
\* updates the driver has delivered since; and every update was handed by
\* the driver to the callback the caller passed to live().
C17_UpdatesGoToTheCallback ==
  \A sid \in LiveStreams :
    /\ \A k \in SubsOf(sid) :
         LET got == streams[sid].subs[k].got
         IN /\ streams[sid].subs[k].st = "closed" /\ streams[sid].outcome.kind = "resolved" =>
                 got = << [n |-> "next", val |-> streams[sid].outcome.val],
                          [n |-> "complete", val |-> ""] >>
            /\ streams[sid].subs[k].st # "closed" => got = <<>>
            /\ \A n \in 1 .. Len(got) : got[n].val \notin Updates
    /\ \A n \in 1 .. Len(streams[sid].updates) :
         streams[sid].updates[n].to = streams[sid].passed[2]

\* The stream of a live() call has emitted the identifier and completed, and
\* the driver has since called the caller's callback MaxUpdates times.
C17_Witness ==
  \E sid \in LiveStreams :
    /\ \E k \in SubsOf(sid) : streams[sid].subs[k].st = "closed" /\ Len(streams[sid].subs[k].got) = 2
    /\ Len(streams[sid].updates) = MaxUpdates
    /\ \A n \in 1 .. MaxUpdates : streams[sid].updates[n].completed

(* ------------------------------- claim C18 ---------------------------- *)

\* C18: the configuration is supplied once and used as supplied -- the
\* configuration a service holds is, in every state, the value forRoot was
\* given in the service's injector, url included; and every connect the
\* driver has received from it, the constructor's or an explicit one, carries
\* the URL parsed from that url and options made of every other field of the
\* configuration, with those fields' values and without the url.
C18_ConnectUsesTheConfigurationAsSupplied ==
  \A c \in Clients :
    services[c].alive =>
      LET cfg == injectors[services[c].injector].cfg
      IN /\ services[c].config = cfg
         /\ \A k \in 1 .. Len(driverLog) :
              driverLog[k].client = c /\ driverLog[k].method = "connect" =>
                /\ Len(driverLog[k].args) = 2
                /\ driverLog[k].args[1] = [t |-> "URL", v |-> ParseURL(cfg.url).href]
                /\ DOMAIN driverLog[k].args[2].fields = {"namespace", "database"}
                /\ \A f \in {"namespace", "database"} :
                     driverLog[k].args[2].fields[f] = cfg[f]

\* After a close() that succeeded, an explicit connect() has brought the
\* driver a second connect, for a configuration whose url is not in
\* serialised form.
C18_Witness ==
  \E c \in Clients :
    /\ services[c].alive
    /\ services[c].config.url = "ws://db.example:8000"
    /\ ConnectCount(driverLog, c) = 2
    /\ \E sid \in AppStreams :
         streams[sid].method = "close" /\ streams[sid].outcome.kind = "resolved"

(* ------------------------------- claim C19 ---------------------------- *)

\* The stream of the constructor's connect.
CtorStreams == {sid \in StreamIds : streams[sid].origin = "ctor"}

\* C19: a failed initial connect surfaces at startup -- once the
\* constructor's connect has rejected, its error can be delivered without
\* anything being called on the adapter, and once delivered it is in the
\* host's unhandled-error channel; the service stays the instance its
\* injector provides and stays usable.
C19_InitialConnectFailureIsReported ==
  \A sid \in CtorStreams :
    streams[sid].outcome.kind = "rejected" =>
      LET c == streams[sid].client
      IN /\ streams[sid].subs[1].st = "active" => ENABLED Deliver(sid, 1)
         /\ streams[sid].subs[1].st # "active" =>
              /\ streams[sid].subs[1].st = "closed"
              /\ \E n \in 1 .. Len(unhandled) : unhandled[n] = streams[sid].outcome.val
         /\ services[c].alive
         /\ provided[services[c].injector] = c
         /\ ENABLED connect(c)

\* The initial connect failed and was reported to the host; the application
\* then called connect() and the driver received a second connect.
C19_Witness ==
  \E sid \in CtorStreams :
    /\ streams[sid].outcome.kind = "rejected"
    /\ unhandled = << streams[sid].outcome.val >>
    /\ ConnectCount(driverLog, streams[sid].client) = 2
    /\ \E s \in AppStreams : streams[s].method = "connect" /\ driverLog[s].stream = s

(* ------------------------------- claim C20 ---------------------------- *)

\* C20: the client is made once -- the service the root injector provides
\* holds, in every state, the client its construction made, whatever was
\* called on it since; and no state has a second service, hence no further
\* client, in that injector.
C20_ClientMadeOnceAndKept ==
  /\ \A c \in Clients : services[c].db = 1
  /\ Cardinality({c \in Clients : services[c].injector = 0}) <= 1

\* The connection was closed by close() and opened again by a later
\* connect(); the service holds the client of its construction.
C20_Witness ==
  \E c \in Clients : \E s1, s2 \in AppStreams :
    /\ s1 < s2
    /\ streams[s1].client = c /\ streams[s1].method = "close"
    /\ streams[s1].outcome.kind = "resolved"
    /\ streams[s2].client = c /\ streams[s2].method = "connect"
    /\ streams[s2].outcome.kind = "resolved"
    /\ services[c].db = 1

(* ------------------------------- claim C21 ---------------------------- *)

\* What a subscriber is due for a settled outcome: the value and the
\* completion, or the error.
Due(outcome) ==
  IF outcome.kind = "resolved"
  THEN << [n |-> "next", val |-> outcome.val], [n |-> "complete", val |-> ""] >>
  ELSE << [n |-> "error", val |-> outcome.val] >>

\* C21: a late subscription still observes the outcome -- a subscriber that
\* subscribed after the driver's call had settled can be served while it is
\* subscribed, and once served holds the value and the completion, or the
\* error, of that call; any two served subscribers of one stream, early or
\* late, hold the same.
C21_LateSubscriberObservesTheOutcome ==
  \A sid \in AppStreams :
    /\ \A k \in SubsOf(sid) :
         streams[sid].subs[k].late =>
           /\ streams[sid].outcome # Pending
           /\ streams[sid].subs[k].st = "active" => ENABLED Deliver(sid, k)
           /\ streams[sid].subs[k].st = "closed" =>
                streams[sid].subs[k].got = Due(streams[sid].outcome)
    /\ \A k1, k2 \in SubsOf(sid) :
         streams[sid].subs[k1].st = "closed" /\ streams[sid].subs[k2].st = "closed" =>
           streams[sid].subs[k1].got = streams[sid].subs[k2].got

\* One subscriber was there before the call settled and one came after;
\* both have been served, with the same value and completion.
C21_Witness ==
  \E sid \in AppStreams : \E k1, k2 \in SubsOf(sid) :
    /\ ~streams[sid].subs[k1].late /\ streams[sid].subs[k1].st = "closed"
    /\ streams[sid].subs[k2].late /\ streams[sid].subs[k2].st = "closed"
    /\ streams[sid].outcome.kind = "resolved"
    /\ streams[sid].subs[k2].got = Due(streams[sid].outcome)

(* ------------------------------- claim C22 ---------------------------- *)

InsertStreams == {sid \in AppStreams : streams[sid].method \in {"insert", "insertRelation"}}

\* C22: insert and insertRelation choose the driver call by the truthiness
\* of their first argument -- undefined, null or the empty string first: the
\* driver has received the second argument alone; anything else first: the
\* driver has received the first and the second, in that order.  Every
\* object or array the caller passed is among the arguments the driver
\* received.
C22_InsertChoosesByFirstArgument ==
  \A sid \in InsertStreams :
    LET first == Param(streams[sid].passed, 1)
        second == Param(streams[sid].passed, 2)
    IN /\ first \in {Undefined, Null, Str("")} => Received(sid) = << second >>
       /\ first \notin {Undefined, Null, Str("")} => Received(sid) = << first, second >>
       /\ \A i \in 1 .. Len(streams[sid].passed) :
            streams[sid].passed[i] \in {Obj("d1"), Arr("rows")} =>
              \E j \in 1 .. Len(Received(sid)) : Received(sid)[j] = streams[sid].passed[i]

\* insertRelation(null, d1) has reached the driver as insertRelation(d1).
C22_Witness ==
  \E sid \in InsertStreams :
    /\ streams[sid].method = "insertRelation"
    /\ streams[sid].passed = << Null, Obj("d1") >>
    /\ Received(sid) = << Obj("d1") >>

====
